---- MODULE Spec2Model ----
(***************************************************************************)
(* Alert-Load-Balancing: the load balancers of load_balancer.py over the   *)
(* provider classes of providers/provider.py and providers/base.py, and    *)
(* the service of main.py (startup, webhook handler, shutdown) around them.*)
(*                                                                         *)
(* The service runs on one asyncio event loop.  A send() call runs without *)
(* interruption from its entry to the await of client.post() (selection    *)
(* included) and again from the resumption of that await to its return, so *)
(* each call is two atomic steps separated by the time the POST is in      *)
(* flight.  Other calls may take their steps in between.                   *)
(*                                                                         *)
(* Providers are numbered 1..N in list order; a provider's name is its     *)
(* number and 0 stands for None.  current_index is 0-based as in the code. *)
(***************************************************************************)
EXTENDS Integers, Sequences, FiniteSets, TLC

\* Bounds of the model.
MaxProviders == 2
MaxQuota == 2
MaxCalls == 4

\* The keys of strategy_map in create_load_balancer.
Strategies == {"round_robin", "weighted_round_robin", "least_connections"}

\* The two provider classes of the providers package.
ProviderClasses == {"Provider", "GenericProvider"}

\* The literal error texts of load_balancer.py, by meaning:
\* "没有可用的云平台提供者" (there is no available provider) and "发送失败" (sending failed).
ErrNoProvider == "no available endpoints"
ErrSendFailed == "delivery failed"
ErrNone == "None"

VARIABLES
    providers,       \* the list handed to the balancer: providers[i].config
    provider_class,  \* the class the list's elements are instances of
    current_index,   \* current_index[s]: self.current_index of the balancer of strategy s
    used_quota,      \* used_quota[s][i]: config.used_quota of provider i of that balancer
    calls,           \* calls[s][c]: the c-th send() call made on that balancer
    status,          \* what the step just taken returned, if it was get_status()
    app              \* the service of main.py around the balancer (NoApp without it)

lbvars == <<providers, provider_class, current_index, used_quota, calls>>
vars == <<providers, provider_class, current_index, used_quota, calls, status, app>>

N == Len(providers)
Running == DOMAIN current_index
CallIds == 1..MaxCalls

\* ProviderConfig as a Provider reads it: no quota attribute is consulted
\* (free_quota is held at 0 and never read).
PlainConfigs == [enabled : BOOLEAN, free_quota : {0}]

\* ProviderConfig with the quota attributes a BaseProvider reads from it.  A
\* disabled provider's quota is never read (is_available returns before it).
QuotaConfigs ==
    [enabled : {TRUE}, free_quota : 0..MaxQuota]
        \cup [enabled : {FALSE}, free_quota : {MaxQuota}]

Lists(configs) == UNION {[1..n -> configs] : n \in 0..MaxProviders}

NoResult == [success |-> FALSE, provider |-> 0, error |-> "unset"]

\* No get_status() value at hand; no service around the balancer.
NoStatus == <<>>
NoApp == <<>>

\* A call's record.  pc is where the call stands: "idle" (not made yet),
\* "awaiting" (suspended in client.post), "returned" or "raised".  start and
\* avail are current_index and the is_available of every provider at the
\* entry of send(); visited is the number of list positions the selection
\* loop read; posts lists the providers client.post was called for; transport is
\* how the POST ended; result is the returned dict.
IdleCall ==
    [pc |-> "idle", provider |-> 0, start |-> 0, avail |-> <<>>, visited |-> 0,
     posts |-> <<>>, transport |-> "none", result |-> NoResult]

----------------------------------------------------------------------------
\* Provider.is_available: the enabled flag alone.
ProviderIsAvailable(cfg) == cfg.enabled

\* Mutant: a free_quota of 0 switches the quota off.
BaseIsAvailableZeroUnlimited(cfg, used) ==
    IF ~cfg.enabled THEN FALSE
    ELSE IF cfg.free_quota = 0 THEN TRUE ELSE used < cfg.free_quota

\* Mutant: the quota comparison off by one.
BaseIsAvailableInclusive(cfg, used) ==
    IF ~cfg.enabled THEN FALSE ELSE used <= cfg.free_quota

\* BaseProvider.is_available: enabled and quota left.
BaseIsAvailable(cfg, used) ==
    IF ~cfg.enabled THEN FALSE ELSE used < cfg.free_quota

is_available(cfg, used) ==
    IF provider_class = "Provider"
    THEN ProviderIsAvailable(cfg)
    ELSE BaseIsAvailable(cfg, used)

\* provider.is_available of every list element, as the balancer of strategy s sees it.
Avail(s) == [i \in 1..N |-> is_available(providers[i], used_quota[s][i])]

----------------------------------------------------------------------------
\* The while loop of RoundRobinLoadBalancer.get_next_provider.
RECURSIVE RoundRobinLoop(_, _, _)
RoundRobinLoop(avail, index, attempts) ==
    IF attempts < Len(avail)
    THEN LET provider == index + 1
             next == (index + 1) % Len(avail)
         IN  IF avail[provider]
             THEN [provider |-> provider, current_index |-> next,
                   visited |-> attempts + 1]
             ELSE RoundRobinLoop(avail, next, attempts + 1)
    ELSE [provider |-> 0, current_index |-> index, visited |-> attempts]

\* Mutant: a scan that finds no provider puts the cursor back at the head.
get_next_provider_reset(avail, index) ==
    IF Len(avail) = 0
    THEN [provider |-> 0, current_index |-> index, visited |-> 0]
    ELSE LET found == RoundRobinLoop(avail, index, 0)
         IN  IF found.provider = 0 THEN [found EXCEPT !.current_index = 0]
             ELSE found

\* Mutant: the cursor is left on the provider returned instead of one past it.
get_next_provider_on_selected(avail, index) ==
    IF Len(avail) = 0
    THEN [provider |-> 0, current_index |-> index, visited |-> 0]
    ELSE LET found == RoundRobinLoop(avail, index, 0)
         IN  IF found.provider = 0 THEN found
             ELSE [found EXCEPT !.current_index = found.provider - 1]

\* Mutant: every scan starts at the head of the list instead of at the cursor.
get_next_provider_from_head(avail, index) ==
    IF Len(avail) = 0
    THEN [provider |-> 0, current_index |-> index, visited |-> 0]
    ELSE LET found == RoundRobinLoop(avail, 0, 0)
         IN  [found EXCEPT !.current_index = (index + found.visited) % Len(avail)]

\* Mutant: the cursor is advanced only past the provider returned, not past
\* the unavailable ones skipped on the way (they are scanned again next time,
\* and the cursor falls behind the rotation).
get_next_provider_lagging(avail, index) ==
    IF Len(avail) = 0
    THEN [provider |-> 0, current_index |-> index, visited |-> 0]
    ELSE LET found == RoundRobinLoop(avail, index, 0)
         IN  IF found.provider = 0 THEN found
             ELSE [found EXCEPT !.current_index = (index + 1) % Len(avail)]

\* Mutant: the provider is read but current_index is not advanced.
get_next_provider_stuck(avail, index) ==
    IF Len(avail) = 0
    THEN [provider |-> 0, current_index |-> index, visited |-> 0]
    ELSE [RoundRobinLoop(avail, index, 0) EXCEPT !.current_index = index]

get_next_provider(avail, index) ==
    IF Len(avail) = 0
    THEN [provider |-> 0, current_index |-> index, visited |-> 0]
    ELSE RoundRobinLoop(avail, index, 0)

\* The selection part of WeightedRoundRobinLoadBalancer.send.
RECURSIVE WeightedLoop(_, _, _)
WeightedLoop(avail, index, attempts) ==
    IF attempts < Len(avail)
    THEN LET provider == index + 1
             next == (index + 1) % Len(avail)
         IN  IF avail[provider]
             THEN [provider |-> provider, current_index |-> next,
                   visited |-> attempts + 1]
             ELSE WeightedLoop(avail, next, attempts + 1)
    ELSE [provider |-> 0, current_index |-> index, visited |-> attempts]

\* Mutant: the loop bound off by one (attempts <= max_attempts).
RECURSIVE WeightedLoopOvershoot(_, _, _)
WeightedLoopOvershoot(avail, index, attempts) ==
    IF attempts <= Len(avail)
    THEN LET provider == index + 1
             next == (index + 1) % Len(avail)
         IN  IF avail[provider]
             THEN [provider |-> provider, current_index |-> next,
                   visited |-> attempts + 1]
             ELSE WeightedLoopOvershoot(avail, next, attempts + 1)
    ELSE [provider |-> 0, current_index |-> index, visited |-> attempts]

WeightedSelectOvershoot(avail, index) ==
    IF Len(avail) = 0
    THEN [provider |-> 0, current_index |-> index, visited |-> 0]
    ELSE WeightedLoopOvershoot(avail, index, 0)

WeightedSelect(avail, index) ==
    IF Len(avail) = 0
    THEN [provider |-> 0, current_index |-> index, visited |-> 0]
    ELSE WeightedLoop(avail, index, 0)

\* The selection part of LeastConnectionsLoadBalancer.send.
RECURSIVE LeastConnLoop(_, _, _)
LeastConnLoop(avail, index, attempts) ==
    IF attempts < Len(avail)
    THEN LET provider == index + 1
             next == (index + 1) % Len(avail)
         IN  IF avail[provider]
             THEN [provider |-> provider, current_index |-> next,
                   visited |-> attempts + 1]
             ELSE LeastConnLoop(avail, next, attempts + 1)
    ELSE [provider |-> 0, current_index |-> index, visited |-> attempts]

\* Mutant: the scan restarts at the head of the list on every call.
LeastConnSelectFromHead(avail, index) ==
    IF Len(avail) = 0
    THEN [provider |-> 0, current_index |-> index, visited |-> 0]
    ELSE LeastConnLoop(avail, 0, 0)

LeastConnSelect(avail, index) ==
    IF Len(avail) = 0
    THEN [provider |-> 0, current_index |-> index, visited |-> 0]
    ELSE LeastConnLoop(avail, index, 0)

\* The class create_load_balancer instantiated decides which send() runs.
Select(s, avail, index) ==
    CASE s = "round_robin" -> get_next_provider(avail, index)
      [] s = "weighted_round_robin" -> WeightedSelect(avail, index)
      [] s = "least_connections" -> LeastConnSelect(avail, index)

----------------------------------------------------------------------------
\* Mutant: the rejection carries the text of a failed delivery.
RejectedAsFailed == [success |-> FALSE, provider |-> 0, error |-> ErrSendFailed]

\* The dict send() returns when no provider was selected.
RejectedResult == [success |-> FALSE, provider |-> 0, error |-> ErrNoProvider]

\* The dict send() returns after provider.send_webhook returned `success`.
SentResult(provider, success) ==
    [success |-> success, provider |-> provider,
     error |-> IF success THEN ErrNone ELSE ErrSendFailed]

\* Mutant: the increment is lost.
QuotaAfterSuccessLost(used) == used

\* self.config.used_quota += 1 of BaseProvider._make_request.
QuotaAfterSuccess(used) == used + 1

\* What the awaited client.post / raise_for_status can do: complete with a
\* success status, raise an Exception (network error, timeout, HTTPStatusError),
\* or raise asyncio.CancelledError, which is a BaseException.
TransportOutcomes == {"ok", "error", "cancelled"}

\* send_webhook from the resumption of the await: True, False, or the
\* exception that `except Exception` does not catch.
send_webhook(outcome) ==
    CASE outcome = "ok" -> "True"
      [] outcome = "error" -> "False"
      [] outcome = "cancelled" -> "raise"

\* Mutant: the increment sits before the request, so a failure consumes quota too.
QuotaAfterAnyOutcome(used, outcome) ==
    IF provider_class = "GenericProvider"
    THEN QuotaAfterSuccess(used)
    ELSE used

\* used_quota of the selected provider after send_webhook finished with `outcome`.
QuotaAfter(used, outcome) ==
    IF provider_class = "GenericProvider" /\ outcome = "ok"
    THEN QuotaAfterSuccess(used)
    ELSE used

----------------------------------------------------------------------------
\* The call, from the entry of send() to the await of client.post (or to the
\* return, when no provider was selected).
StartedCall(s) ==
    LET avail == Avail(s)
        sel == Select(s, avail, current_index[s])
    IN  [pc |-> IF sel.provider = 0 THEN "returned" ELSE "awaiting",
         provider |-> sel.provider,
         start |-> current_index[s],
         avail |-> avail,
         visited |-> sel.visited,
         posts |-> IF sel.provider = 0 THEN <<>> ELSE <<sel.provider>>,
         transport |-> "none",
         result |-> IF sel.provider = 0 THEN RejectedResult ELSE NoResult]

\* Mutant: a failed delivery is retried once on the same provider.
FinishedCallRetry(call, outcome) ==
    LET ret == send_webhook(outcome)
    IN  [call EXCEPT
            !.pc = IF ret = "raise" THEN "raised" ELSE "returned",
            !.transport = outcome,
            !.posts = IF ret = "False" THEN Append(@, call.provider) ELSE @,
            !.result = IF ret = "raise" THEN NoResult
                       ELSE SentResult(call.provider, ret = "True")]

\* The call, from the resumption of the await to the end of send().
FinishedCall(call, outcome) ==
    LET ret == send_webhook(outcome)
    IN  [call EXCEPT
            !.pc = IF ret = "raise" THEN "raised" ELSE "returned",
            !.transport = outcome,
            !.result = IF ret = "raise" THEN NoResult
                       ELSE SentResult(call.provider, ret = "True")]

Started(s) == {c \in CallIds : calls[s][c].pc # "idle"}
InFlight(s) == {c \in CallIds : calls[s][c].pc = "awaiting"}

\* The id the next send() call gets.
NextCall(s) == Cardinality(Started(s)) + 1

\* Mutant: send() holds a lock from selection to its return, so a call
\* cannot start while another is suspended in client.post.
send_locked(c) ==
    /\ \A s \in Running : \A b \in CallIds : calls[s][b].pc # "awaiting"
    /\ \A s \in Running : calls[s][c].pc = "idle"
    /\ \A s \in Running : \A b \in CallIds : b < c => calls[s][b].pc # "idle"
    /\ calls' = [s \in Running |->
                    [calls[s] EXCEPT ![c] = StartedCall(s)]]
    /\ current_index' = [s \in Running |->
                    Select(s, Avail(s), current_index[s]).current_index]
    /\ UNCHANGED <<providers, provider_class, used_quota>>
    /\ status' = NoStatus

\* A new send() call arrives; every running balancer receives it.
send(c) ==
    /\ \A s \in Running : calls[s][c].pc = "idle"
    /\ \A s \in Running : \A b \in CallIds : b < c => calls[s][b].pc # "idle"
    /\ calls' = [s \in Running |->
                    [calls[s] EXCEPT ![c] = StartedCall(s)]]
    /\ current_index' = [s \in Running |->
                    Select(s, Avail(s), current_index[s]).current_index]
    /\ UNCHANGED <<providers, provider_class, used_quota>>
    /\ status' = NoStatus

\* send() called directly on the balancer.
Send(c) == send(c) /\ UNCHANGED app

\* Call c is suspended in client.post.
Awaiting(c) == \E s \in Running : calls[s][c].pc = "awaiting"

\* The POST of call c ends with `outcome` and the call runs to its end.
Finish(c, outcome) ==
    /\ calls' = [s \in Running |->
                    IF calls[s][c].pc = "awaiting"
                    THEN [calls[s] EXCEPT ![c] = FinishedCall(calls[s][c], outcome)]
                    ELSE calls[s]]
    /\ used_quota' = [s \in Running |->
                    IF calls[s][c].pc = "awaiting"
                    THEN [used_quota[s] EXCEPT ![calls[s][c].provider] =
                              QuotaAfter(@, outcome)]
                    ELSE used_quota[s]]
    /\ UNCHANGED <<providers, provider_class, current_index>>
    /\ status' = NoStatus

\* The remote answers with a success status.
Delivered(c) == Awaiting(c) /\ Finish(c, "ok") /\ UNCHANGED app

\* client.post or raise_for_status raises an Exception.
Failed(c) == Awaiting(c) /\ Finish(c, "error") /\ UNCHANGED app

\* The suspended call is cancelled: CancelledError is raised at the await.
Cancelled(c) == Awaiting(c) /\ Finish(c, "cancelled") /\ UNCHANGED app

----------------------------------------------------------------------------
\* The loop of get_status over self.providers: the entries appended and the
\* count of available providers, up to position i.
RECURSIVE StatusLoop(_, _)
StatusLoop(avail, i) ==
    IF i = 0
    THEN [providers |-> <<>>, available |-> 0]
    ELSE LET before == StatusLoop(avail, i - 1)
             entry == [name |-> i,
                       enabled |-> providers[i].enabled,
                       available |-> avail[i],
                       endpoint |-> i]
         IN  [providers |-> Append(before.providers, entry),
              available |-> IF avail[i] THEN before.available + 1
                            ELSE before.available]

\* Mutant: the count is of the enabled providers, not of the available ones.
RECURSIVE StatusLoopEnabled(_, _)
StatusLoopEnabled(avail, i) ==
    IF i = 0
    THEN [providers |-> <<>>, available |-> 0]
    ELSE LET before == StatusLoopEnabled(avail, i - 1)
             entry == [name |-> i,
                       enabled |-> providers[i].enabled,
                       available |-> avail[i],
                       endpoint |-> i]
         IN  [providers |-> Append(before.providers, entry),
              available |-> IF providers[i].enabled THEN before.available + 1
                            ELSE before.available]

get_status_enabled(s) ==
    LET done == StatusLoopEnabled(Avail(s), N)
    IN  [providers |-> done.providers, total |-> N, available |-> done.available]

\* get_status of the balancer (the three classes carry the same body): the
\* dict it returns.  A provider's endpoint URL is written as its number.
get_status(s) ==
    LET done == StatusLoop(Avail(s), N)
    IN  [providers |-> done.providers, total |-> N, available |-> done.available]

\* Mutant: the status is computed by walking the rotation, which moves the cursor.
IndexAfterStatusAdvanced(index) == IF N = 0 THEN index ELSE (index + 1) % N

\* self.current_index after get_status: the method assigns to nothing.
IndexAfterStatus(index) == index

\* get_status() is called on the balancer of strategy s and returns.
GetStatus(s) ==
    /\ status' = get_status(s)
    /\ current_index' = [current_index EXCEPT ![s] = IndexAfterStatus(@)]
    /\ UNCHANGED <<providers, provider_class, used_quota, calls, app>>

\* A balancer of each strategy in `running`, freshly constructed over the same list.
Fresh(running) ==
    /\ provider_class \in ProviderClasses
    /\ providers \in Lists(IF provider_class = "Provider"
                           THEN PlainConfigs ELSE QuotaConfigs)
    /\ current_index = [s \in running |-> 0]
    /\ used_quota = [s \in running |-> [i \in 1..N |-> 0]]
    /\ calls = [s \in running |-> [c \in CallIds |-> IdleCall]]
    /\ status = NoStatus
    /\ app = NoApp

\* create_load_balancer(strategy, providers) for one of the known strategies.
Init == \E s \in Strategies : Fresh({s})

Next ==
    \/ \E c \in CallIds : Send(c)
    \/ \E c \in CallIds : Delivered(c)
    \/ \E c \in CallIds : Failed(c)
    \/ \E c \in CallIds : Cancelled(c)

Spec == Init /\ [][Next]_vars

\* The three strategies side by side, over equal lists, fed the same calls and
\* the same transport outcomes.
InitAll == Fresh(Strategies)

SpecAll == InitAll /\ [][Next]_vars

\* Calls made one after the other, every delivery succeeding.
SendAlone(c) == (\A s \in Running : InFlight(s) = {}) /\ Send(c)

NextSeq ==
    \/ \E c \in CallIds : SendAlone(c)
    \/ \E c \in CallIds : Delivered(c)

SpecSeq == Init /\ [][NextSeq]_vars

\* send() calls with get_status() calls in between them and while they are in flight.
NextStatus ==
    \/ Next
    \/ \E s \in Running : GetStatus(s)

SpecStatus == Init /\ [][NextStatus]_vars

\* The same over the balancer of the default strategy (AppConfig.load_balancer_strategy).
InitRoundRobin == Fresh({"round_robin"})

SpecRoundRobin == InitRoundRobin /\ [][NextStatus]_vars

-----------------------------------------------------------------------------
\* The service of main.py: startup_event, webhook_handler, shutdown_event.

\* Strategy identifiers a configuration may carry: the keys of strategy_map,
\* one of them in another case, and one that is no key.
StrategyNames == Strategies \cup {"ROUND_ROBIN", "random"}

\* str.lower() on those identifiers.
Lower(name) == IF name = "ROUND_ROBIN" THEN "round_robin" ELSE name

NoBalancer == "None"

\* Mutant: the identifier is looked up as given, without lower().
create_load_balancer_exact(strategy) ==
    IF strategy \in Strategies THEN strategy ELSE "ValueError"

\* The class create_load_balancer instantiates, or the exception it raises.
create_load_balancer(strategy) ==
    IF Lower(strategy) \in Strategies THEN Lower(strategy) ELSE "ValueError"

\* Mutant: a provider is constructed for every config, enabled or not.
EnabledOnlyUnfiltered(cfgs) == cfgs

\* The providers startup_event constructs: one per enabled config, in order.
RECURSIVE EnabledOnly(_)
EnabledOnly(cfgs) ==
    IF cfgs = <<>> THEN <<>>
    ELSE IF Head(cfgs).enabled
         THEN <<Head(cfgs)>> \o EnabledOnly(Tail(cfgs))
         ELSE EnabledOnly(Tail(cfgs))

\* The global load_balancer after startup_event: None without providers and
\* when create_load_balancer raised ValueError.
BalancerAfterStartup(strategy, constructed) ==
    IF constructed = <<>> THEN NoBalancer
    ELSE LET made == create_load_balancer(strategy)
         IN  IF made = "ValueError" THEN NoBalancer ELSE made

ReqIds == 1..MaxCalls

\* The handler's return values: status, the kind of message, and the provider
\* the message names (0: none).
NoResponse == [status |-> "none", message |-> "none", provider |-> 0]
NoLoggerResponse == [status |-> "error", message |-> "logger not initialized", provider |-> 0]
LogFailedResponse == [status |-> "error", message |-> "failed to record", provider |-> 0]
LocalOnlyResponse == [status |-> "success", message |-> "local log only", provider |-> 0]
ForwardedResponse(i) == [status |-> "success", message |-> "forwarded", provider |-> i]

\* A request's record.  pc: "idle" (not received yet), "forwarding" (suspended
\* in load_balancer.send), "responded" or "cancelled"; log: how the logging of
\* the payload went; call: the send() call the handler made (0: none).
IdleRequest == [pc |-> "idle", log |-> "none", call |-> 0, response |-> NoResponse]

\* Mutant: a logging failure is logged and the handler goes on to forward.
DispatchesDespiteLog(logger, logged, balancer) == logger /\ balancer # NoBalancer

\* Whether the handler reaches load_balancer.send: not when it returned early
\* (no logger, or the logging raised), not without a balancer.
Dispatches(logger, logged, balancer) == logger /\ logged /\ balancer # NoBalancer

\* What the handler returns when it does not reach load_balancer.send.
EarlyResponse(logger, logged) ==
    IF ~logger THEN NoLoggerResponse
    ELSE IF ~logged THEN LogFailedResponse
    ELSE LocalOnlyResponse

\* Mutant: a failed forwarding is reported to the caller as an error.
HandlerResponseStrict(result) ==
    IF result.success THEN ForwardedResponse(result.provider)
    ELSE [status |-> "error", message |-> "local log only", provider |-> 0]

\* What the handler returns for the dict load_balancer.send returned.
HandlerResponse(result) ==
    IF result.success THEN ForwardedResponse(result.provider) ELSE LocalOnlyResponse

\* The request once load_balancer.send has ended: a response for a returned
\* dict and for an exception `except Exception` catches; a CancelledError is
\* not caught and ends the handler without a response.
AfterRelay(req, call) ==
    IF call.pc = "awaiting" THEN [req EXCEPT !.pc = "forwarding"]
    ELSE IF call.pc = "raised" /\ call.transport = "cancelled"
    THEN [req EXCEPT !.pc = "cancelled"]
    ELSE [req EXCEPT !.pc = "responded",
                     !.response = IF call.pc = "raised" THEN LocalOnlyResponse
                                  ELSE HandlerResponse(call.result)]

\* The service before startup, with the configuration it will load.
InitApp ==
    /\ provider_class = "Provider"
    /\ providers = <<>>
    /\ current_index = <<>>
    /\ used_quota = <<>>
    /\ calls = <<>>
    /\ status = NoStatus
    /\ \E strategy \in StrategyNames : \E cfgs \in Lists(PlainConfigs) :
          app = [phase |-> "down", strategy |-> strategy, configs |-> cfgs,
                 alert_logger |-> FALSE, load_balancer |-> NoBalancer,
                 clients |-> <<>>, requests |-> [r \in ReqIds |-> IdleRequest]]

startup_event ==
    /\ app.phase = "down"
    /\ LET constructed == EnabledOnly(app.configs)
           balancer == BalancerAfterStartup(app.strategy, constructed)
           running == IF balancer = NoBalancer THEN {} ELSE {balancer}
       IN  /\ providers' = constructed
           /\ current_index' = [s \in running |-> 0]
           /\ used_quota' = [s \in running |-> [i \in 1..Len(constructed) |-> 0]]
           /\ calls' = [s \in running |-> [c \in CallIds |-> IdleCall]]
           /\ app' = [app EXCEPT !.phase = "running",
                                 !.alert_logger = TRUE,
                                 !.load_balancer = balancer,
                                 !.clients = [i \in 1..Len(constructed) |-> "open"]]
    /\ UNCHANGED <<provider_class, status>>

\* The handler from its entry to its first suspension or its return; logged
\* tells whether the logging block ran without raising.
webhook_handler(r, logged) ==
    /\ app.phase = "running"
    /\ app.requests[r].pc = "idle"
    /\ \A q \in ReqIds : q < r => app.requests[q].pc # "idle"
    /\ LET log == IF logged THEN "ok" ELSE "failed"
       IN  IF Dispatches(app.alert_logger, logged, app.load_balancer)
           THEN LET c == NextCall(app.load_balancer)
                IN  /\ c \in CallIds
                    /\ send(c)
                    /\ app' = [app EXCEPT !.requests[r] =
                                  AfterRelay([IdleRequest EXCEPT !.log = log, !.call = c],
                                             calls'[app.load_balancer][c])]
           ELSE /\ app' = [app EXCEPT !.requests[r] =
                              [pc |-> "responded", log |-> log, call |-> 0,
                               response |-> EarlyResponse(app.alert_logger, logged)]]
                /\ UNCHANGED <<lbvars, status>>

\* The handler from the end of load_balancer.send to its own end.
Resume(c) ==
    \E r \in ReqIds :
        /\ app.requests[r].call = c
        /\ app' = [app EXCEPT !.requests[r] = AfterRelay(@, calls'[app.load_balancer][c])]

Forwarded(c) == Awaiting(c) /\ Finish(c, "ok") /\ Resume(c)
NotForwarded(c) == Awaiting(c) /\ Finish(c, "error") /\ Resume(c)
HandlerCancelled(c) == Awaiting(c) /\ Finish(c, "cancelled") /\ Resume(c)

\* shutdown_event, run once no request is in progress; failed is the set of
\* providers whose close() raises.
shutdown_event(failed) ==
    /\ app.phase = "running"
    /\ \A r \in ReqIds : app.requests[r].pc # "forwarding"
    /\ app' = [app EXCEPT
                  !.phase = "stopped",
                  !.clients = IF app.load_balancer = NoBalancer THEN @
                              ELSE [i \in DOMAIN @ |->
                                       IF i \in failed THEN "close failed" ELSE "closed"]]
    /\ UNCHANGED <<lbvars, status>>

NextApp ==
    \/ startup_event
    \/ \E r \in ReqIds : \E logged \in BOOLEAN : webhook_handler(r, logged)
    \/ \E c \in CallIds : Forwarded(c)
    \/ \E c \in CallIds : NotForwarded(c)
    \/ \E c \in CallIds : HandlerCancelled(c)
    \/ \E failed \in SUBSET DOMAIN app.clients : shutdown_event(failed)

SpecApp == InitApp /\ [][NextApp]_vars

----------------------------------------------------------------------------
\* Vocabulary of the properties.

Call(s, c) == calls[s][c]

\* provider.is_available of every provider as call c's selection found it.
AvailSeen(s, c) == Call(s, c).avail

AllAvailableAt(s, c) == \A i \in 1..N : AvailSeen(s, c)[i]
NoneAvailableAt(s, c) == \A i \in 1..N : ~AvailSeen(s, c)[i]

\* Distance of list position i (1-based) from cursor `start`, going round.
Ahead(i, start, n) == (i - 1 - start) % n

\* The first available provider at or after the cursor, going round; 0 if none.
FirstAvailable(avail, start) ==
    IF \A i \in DOMAIN avail : ~avail[i]
    THEN 0
    ELSE CHOOSE i \in DOMAIN avail :
            /\ avail[i]
            /\ \A j \in DOMAIN avail :
                  avail[j] => Ahead(i, start, Len(avail)) <= Ahead(j, start, Len(avail))

Quotas == provider_class = "GenericProvider"

TimesSelected(s, i) == Cardinality({c \in Started(s) : Call(s, c).provider = i})

\* C1. Rotation fairness: on a fresh balancer over N >= 1 providers that are
\* available at every selection so far, the i-th send() call selects the
\* provider at list index i-1, for i up to N.
RotationFairness ==
    \A s \in Running : \A c \in Started(s) :
        (c <= N /\ \A b \in 1..c : AllAvailableAt(s, b))
            => Call(s, c).provider = c

\* A full round over MaxProviders available providers has been selected.
RotationFairnessWitness ==
    \E s \in Running :
        /\ N = MaxProviders
        /\ \A c \in 1..N : c \in Started(s) /\ AllAvailableAt(s, c)
        /\ Call(s, N).provider = N

\* The two-provider scenario of the quota property: A(limit 1), B(limit 2).
ScenarioList ==
    <<[enabled |-> TRUE, free_quota |-> 1], [enabled |-> TRUE, free_quota |-> 2]>>

\* C2. Quota exhaustion, calls made one after the other and every delivery
\* succeeding: a provider with free_quota k is selected at most k times; every
\* selection is the first provider with quota left at or after the cursor
\* (exhausted ones are skipped); over [A(1), B(2)] four calls give A, B, B,
\* rejected, with used quotas 1 and 2.
QuotaExhaustion ==
    \A s \in Running :
        Quotas =>
            /\ \A i \in 1..N : TimesSelected(s, i) <= providers[i].free_quota
            /\ \A c \in Started(s) :
                  Call(s, c).provider = FirstAvailable(AvailSeen(s, c), Call(s, c).start)
            /\ (providers = ScenarioList /\ \A c \in 1..4 : Call(s, c).pc = "returned")
                  => /\ Call(s, 1).provider = 1
                     /\ Call(s, 2).provider = 2
                     /\ Call(s, 3).provider = 2
                     /\ Call(s, 4).result = RejectedResult
                     /\ used_quota[s] = <<1, 2>>

\* The scenario has run to its fourth call, which skipped both exhausted providers.
QuotaExhaustionWitness ==
    \E s \in Running :
        /\ Quotas
        /\ providers = ScenarioList
        /\ \A c \in 1..4 : Call(s, c).pc = "returned"
        /\ Call(s, 3).start = 0 /\ Call(s, 3).visited = 2

\* C3. The quota is a cap: used_quota never exceeds free_quota, whatever the
\* interleaving of the calls.
QuotaIsCap ==
    \A s \in Running :
        Quotas => \A i \in 1..N : used_quota[s][i] <= providers[i].free_quota

\* C4. Concurrent correctness: over a single enabled provider with free_quota
\* M, while at most M calls have been made and no POST has failed, every call
\* selected the provider, every finished call returned success for it, and
\* used_quota counts exactly the finished calls (M once all M are finished).
ConcurrentCorrectness ==
    \A s \in Running :
        (/\ Quotas
         /\ N = 1
         /\ providers[1].enabled
         /\ providers[1].free_quota >= 1
         /\ Started(s) \subseteq 1..providers[1].free_quota
         /\ \A c \in Started(s) : Call(s, c).transport \in {"none", "ok"})
            => /\ \A c \in Started(s) : Call(s, c).provider = 1
               /\ \A c \in Started(s) \ InFlight(s) :
                     Call(s, c).pc = "returned" /\ Call(s, c).result = SentResult(1, TRUE)
               /\ used_quota[s][1] = Cardinality(Started(s) \ InFlight(s))

\* MaxQuota calls overlap: the first is still in flight, all those made after
\* it have been delivered and counted.
ConcurrentCorrectnessWitness ==
    \E s \in Running :
        /\ Quotas
        /\ N = 1
        /\ providers[1].enabled
        /\ providers[1].free_quota = MaxQuota
        /\ Started(s) = 1..MaxQuota
        /\ Call(s, 1).pc = "awaiting"
        /\ \A c \in 2..MaxQuota : Call(s, c).result = SentResult(1, TRUE)
        /\ used_quota[s][1] = MaxQuota - 1

\* C5. used_quota of a provider changes only by +1, in the step in which a
\* delivery to that provider completes successfully; a failed or cancelled
\* delivery, a rejected call and a delivery to another provider leave it as it was.
QuotaChange(s, i) ==
    \/ used_quota'[s][i] = used_quota[s][i]
    \/ /\ used_quota'[s][i] = used_quota[s][i] + 1
       /\ \E c \in CallIds :
             /\ calls[s][c].pc = "awaiting"
             /\ calls[s][c].provider = i
             /\ calls'[s][c].pc = "returned"
             /\ calls'[s][c].result = SentResult(i, TRUE)

QuotaFrame == [][\A s \in Running : \A i \in 1..N : QuotaChange(s, i)]_vars

\* A delivery failed, the provider's only unit of quota was not consumed, and
\* a later call was delivered to the same provider.
QuotaFrameWitness ==
    \E s \in Running : \E b, c \in Started(s) :
        /\ Quotas
        /\ b < c
        /\ Call(s, b).transport = "error"
        /\ Call(s, c).provider = Call(s, b).provider
        /\ Call(s, c).transport = "ok"
        /\ providers[Call(s, b).provider].free_quota = 1
        /\ used_quota[s][Call(s, b).provider] = 1

\* The reason the specification gives for a rejection on an empty list.
ReasonNoEndpointsConfigured == "no endpoints configured"

\* What an empty list does to a call apart from the reason: it returns, fails,
\* names no provider, visits nothing, posts nothing, leaves the cursor at 0.
EmptyRejection(s, c) ==
    /\ Call(s, c).pc = "returned"
    /\ ~Call(s, c).result.success
    /\ Call(s, c).result.provider = 0
    /\ Call(s, c).visited = 0
    /\ Call(s, c).posts = <<>>
    /\ current_index[s] = 0

\* C6 as stated: on an empty list the rejection carries the reason
\* "no endpoints configured".
EmptyRegistryOwnReason ==
    \A s \in Running : \A c \in Started(s) :
        N = 0 => EmptyRejection(s, c)
                 /\ Call(s, c).result.error = ReasonNoEndpointsConfigured

\* C6 amended: on an empty list send() returns the rejection with the one
\* reason the code has, the "no available endpoints" text it also gives when
\* all providers are unavailable; no POST, cursor unchanged, nothing raised.
EmptyRegistry ==
    \A s \in Running : \A c \in Started(s) :
        N = 0 => EmptyRejection(s, c) /\ Call(s, c).result.error = ErrNoProvider

EmptyRegistryWitness ==
    \E s \in Running : N = 0 /\ Started(s) = CallIds

\* C7. All unavailable: a call that finds every one of the N >= 1 providers
\* disabled or out of quota visits exactly N positions, returns the rejection
\* with the reason "no available endpoints" and makes no POST; so does the call
\* after it; and no call visits more than N positions.
AllUnavailable ==
    \A s \in Running : \A c \in Started(s) :
        /\ Call(s, c).visited <= N
        /\ (N >= 1 /\ NoneAvailableAt(s, c))
              => /\ Call(s, c).visited = N
                 /\ Call(s, c).pc = "returned"
                 /\ Call(s, c).result = RejectedResult
                 /\ Call(s, c).posts = <<>>
                 /\ Call(s, c).transport = "none"

\* Two calls in a row found one provider disabled and the other out of quota.
AllUnavailableWitness ==
    \E s \in Running : \E c \in Started(s) :
        /\ N = 2
        /\ c + 1 \in Started(s)
        /\ NoneAvailableAt(s, c) /\ NoneAvailableAt(s, c + 1)
        /\ \E i \in 1..N : ~providers[i].enabled
        /\ \E i \in 1..N : providers[i].enabled /\ used_quota[s][i] >= 1

\* C8. send() is total: when the POST raises (network error, timeout, error
\* status or cancellation) the call returns the failed-delivery dict naming
\* the selected provider.
RelayIsTotal ==
    \A s \in Running : \A c \in Started(s) :
        Call(s, c).transport \in {"error", "cancelled"}
            => /\ Call(s, c).pc = "returned"
               /\ Call(s, c).result = SentResult(Call(s, c).provider, FALSE)

\* C9. One attempt per call: a call posts at most once, to the provider it
\* selected; a failed delivery is followed by no second POST, to the same or
\* to another provider; a rejected call posts nothing.
OneAttempt ==
    \A s \in Running : \A c \in Started(s) :
        /\ Len(Call(s, c).posts) <= 1
        /\ Call(s, c).provider # 0 => Call(s, c).posts = <<Call(s, c).provider>>
        /\ Call(s, c).provider = 0 => Call(s, c).posts = <<>>
        /\ Call(s, c).result = RejectedResult => Call(s, c).posts = <<>>

\* A delivery failed while another provider was available, and a call was rejected.
OneAttemptWitness ==
    \E s \in Running : \E b, c \in Started(s) :
        /\ Call(s, b).transport = "error"
        /\ Call(s, b).pc = "returned"
        /\ \E i \in 1..N : i # Call(s, b).provider /\ AvailSeen(s, b)[i]
        /\ Call(s, c).result = RejectedResult

\* C10. Strategy equivalence: balancers of the three strategies, built over
\* equal lists and fed the same calls and transport outcomes, agree after
\* every step on the cursor, the quota counters and every call's record.
StrategyEquivalence ==
    \A s, t \in Running :
        /\ current_index[s] = current_index[t]
        /\ used_quota[s] = used_quota[t]
        /\ calls[s] = calls[t]

\* The three balancers ran all calls, with a skip, a delivery, a failure and a rejection.
StrategyEquivalenceWitness ==
    /\ Running = Strategies
    /\ \A s \in Running : Started(s) = CallIds
    /\ \E c \in CallIds : Call("least_connections", c).visited >= 2
                          /\ Call("least_connections", c).provider # 0
    /\ \E c \in CallIds : Call("weighted_round_robin", c).transport = "error"
    /\ \E c \in CallIds : Call("round_robin", c).result = RejectedResult
    /\ \E c \in CallIds : Call("round_robin", c).result.success

\* The cursor after call c's selection loop: one step per position visited.
CursorAfter(s, c) ==
    IF N = 0 THEN Call(s, c).start
    ELSE (Call(s, c).start + Call(s, c).visited) % N

\* C12. Cursor atomicity: whatever the interleaving, every call's scan starts
\* at the cursor the scan of the call before it left (the first at 0), so no
\* two scans read the same cursor value and both advance from it; and with
\* N >= 2 providers available to both, two selections in a row differ.
CursorAtomicity ==
    \A s \in Running : \A c \in Started(s) :
        /\ c = 1 => Call(s, c).start = 0
        /\ c > 1 => Call(s, c).start = CursorAfter(s, c - 1)
        /\ (c > 1 /\ N >= 2 /\ AllAvailableAt(s, c - 1) /\ AllAvailableAt(s, c))
              => Call(s, c).provider # Call(s, c - 1).provider

\* Calls overlap in flight on a full round and more: all made, the first still
\* suspended, over the largest list with every provider available.
CursorAtomicityWitness ==
    \E s \in Running :
        /\ N = MaxProviders
        /\ Started(s) = CallIds
        /\ Call(s, 1).pc = "awaiting" /\ Call(s, MaxCalls).pc = "awaiting"
        /\ \A c \in CallIds : AllAvailableAt(s, c)

\* C13. The POST is awaited outside any critical section: while a call is
\* suspended in client.post, a new call can be made (and runs its selection),
\* every other suspended call can be delivered and counted, and get_status()
\* can return.
TransportOutsideLock ==
    \A s \in Running :
        InFlight(s) # {} =>
            /\ NextCall(s) \in CallIds => ENABLED Send(NextCall(s))
            /\ Cardinality(InFlight(s)) > 1 => \A b \in InFlight(s) : ENABLED Delivered(b)
            /\ ENABLED GetStatus(s)

\* With the first call still suspended, a later call was delivered to another
\* provider and counted, and get_status() has just returned.
TransportOutsideLockWitness ==
    \E s \in Running : \E c \in Started(s) :
        /\ Quotas
        /\ Call(s, 1).pc = "awaiting"
        /\ c > 1
        /\ Call(s, c).result.success
        /\ Call(s, c).provider # Call(s, 1).provider
        /\ used_quota[s][Call(s, c).provider] = 1
        /\ status # NoStatus

\* Provider i is available to every call from b to c.
AvailableThroughout(s, i, b, c) == \A d \in b..c : d \in Started(s) /\ AvailSeen(s, d)[i]

max(a, b) == IF a >= b THEN a ELSE b

\* C17 as stated: every entry of get_status() carries the quota numbers used,
\* limit and remaining = max(0, limit - used), besides id, enabled flag and
\* is_available; total = N; available = the number of available providers.
StatusWithQuota ==
    \A s \in Running :
        status # NoStatus =>
            /\ Len(status.providers) = N
            /\ status.total = N
            /\ status.available = Cardinality({i \in 1..N : Avail(s)[i]})
            /\ \A i \in 1..N :
                  LET e == status.providers[i]
                  IN  /\ {"used", "limit", "remaining"} \subseteq DOMAIN e
                      /\ e.name = i
                      /\ e.enabled = providers[i].enabled
                      /\ e.available = Avail(s)[i]
                      /\ e.used = used_quota[s][i]
                      /\ e.limit = providers[i].free_quota
                      /\ e.remaining = max(0, e.limit - e.used)

\* C17 amended: get_status() returns one entry per provider, in list order,
\* carrying its name, enabled flag, current is_available and endpoint URL and
\* no quota numbers; total = N; available = the number of providers whose
\* is_available is true at the call, so 0 <= available <= total.
StatusSnapshot ==
    \A s \in Running :
        status # NoStatus =>
            /\ Len(status.providers) = N
            /\ status.total = N
            /\ status.available = Cardinality({i \in 1..N : Avail(s)[i]})
            /\ 0 <= status.available /\ status.available <= status.total
            /\ \A i \in 1..N :
                  LET e == status.providers[i]
                  IN  /\ DOMAIN e = {"name", "enabled", "available", "endpoint"}
                      /\ e.name = i
                      /\ e.enabled = providers[i].enabled
                      /\ e.available = Avail(s)[i]
                      /\ e.endpoint = i

\* A status taken when an enabled provider had run out of quota and another had not.
StatusSnapshotWitness ==
    \E s \in Running :
        /\ status # NoStatus
        /\ N = 2
        /\ status.available = 1
        /\ \E i \in 1..N : status.providers[i].enabled /\ ~status.providers[i].available

\* C18. get_status() has no side effects: the step in which it returns leaves
\* the cursor, every quota counter, the provider list and every call as they
\* were, whenever it is made.
StatusReadOnly == [][status' # NoStatus => lbvars' = lbvars]_vars

\* A status returned between the selection and the delivery of a call, after
\* the cursor had moved and a quota had been counted.
StatusReadOnlyWitness ==
    \E s \in Running :
        /\ status # NoStatus
        /\ InFlight(s) # {}
        /\ current_index[s] # 0
        /\ \E i \in 1..N : used_quota[s][i] > 0

\* C20 as stated: an enabled provider with free_quota 0 is available,
\* whatever its used quota.
ZeroQuotaUnlimited ==
    \A s \in Running : \A i \in 1..N :
        (Quotas /\ providers[i].enabled /\ providers[i].free_quota = 0)
            => Avail(s)[i]

\* C20 amended: an enabled BaseProvider with free_quota 0 is never available
\* (used_quota < 0 is false), so no call ever selects it; a Provider, which
\* has no quota, is available whenever enabled, whatever was delivered.
ZeroQuotaUnavailable ==
    \A s \in Running : \A i \in 1..N :
        /\ (Quotas /\ providers[i].free_quota = 0)
              => ~Avail(s)[i] /\ TimesSelected(s, i) = 0
        /\ ~Quotas => Avail(s)[i] = providers[i].enabled

\* A call was rejected although the only provider is enabled, its quota being 0.
ZeroQuotaUnavailableWitness ==
    \E s \in Running :
        /\ Quotas
        /\ N = 1
        /\ providers[1].enabled /\ providers[1].free_quota = 0
        /\ Call(s, 1).result = RejectedResult

Request(r) == app.requests[r]
Handled == {r \in ReqIds : Request(r).pc # "idle"}

\* C11 as stated: create_load_balancer makes a balancer for the three
\* identifiers only, and the service is never running after a startup given
\* another identifier.
UnknownStrategyFatal ==
    /\ app.load_balancer # NoBalancer => app.strategy \in Strategies
    /\ app.phase = "running" => app.strategy \in Strategies

\* C11 amended: create_load_balancer compares the identifier in lower case and
\* raises ValueError for any other; startup catches the error and the service
\* runs without a balancer: after startup the balancer is the class of the
\* lower-cased identifier when that is known and a provider is enabled, None
\* otherwise, and without a balancer every request, once logged, is answered
\* "success" (local log only) and nothing is forwarded.
UnknownStrategyLocalOnly ==
    app.phase # "down" =>
        /\ app.alert_logger
        /\ app.load_balancer =
              IF Lower(app.strategy) \in Strategies /\ EnabledOnly(app.configs) # <<>>
              THEN Lower(app.strategy) ELSE NoBalancer
        /\ Running = IF app.load_balancer = NoBalancer THEN {} ELSE {app.load_balancer}
        /\ app.load_balancer = NoBalancer =>
              \A r \in Handled :
                  /\ Request(r).pc = "responded" /\ Request(r).call = 0
                  /\ Request(r).log = "ok" => Request(r).response = LocalOnlyResponse

\* Started with an unknown identifier and an enabled provider, the service
\* has answered a request.
UnknownStrategyLocalOnlyWitness ==
    /\ app.phase = "running"
    /\ app.strategy = "random"
    /\ N > 0
    /\ Request(1).response = LocalOnlyResponse

\* C15 as stated: a failure of the payload logging prevents neither the
\* forwarding nor the response: with a balancer, every request handled has
\* made exactly one send() call and gets a response, also when its logging failed.
LoggingFailureStillForwards ==
    app.load_balancer # NoBalancer =>
        \A r \in Handled :
            /\ Request(r).call # 0
            /\ \A q \in Handled : q # r => Request(q).call # Request(r).call

\* C15 amended: an exception of the payload logging is caught and answered
\* with status "error" at once, and send() is not called for that request;
\* with a balancer, send() is called exactly once for every request whose
\* logging succeeded.
LoggingFailureStopsHandler ==
    \A r \in Handled :
        /\ Request(r).log = "failed" =>
              /\ Request(r).pc = "responded"
              /\ Request(r).response = LogFailedResponse
              /\ Request(r).call = 0
        /\ (Request(r).log = "ok" /\ app.load_balancer # NoBalancer) =>
              /\ Request(r).call \in Started(app.load_balancer)
              /\ \A q \in Handled : q # r => Request(q).call # Request(r).call
        /\ app.load_balancer # NoBalancer =>
              Cardinality(Started(app.load_balancer))
                  = Cardinality({q \in Handled : Request(q).log = "ok"})

\* With a balancer, a request whose logging failed lies between two that were forwarded.
LoggingFailureStopsHandlerWitness ==
    /\ app.load_balancer # NoBalancer
    /\ Request(1).call = 1
    /\ Request(2).log = "failed"
    /\ Request(3).call = 2

\* The outcome of the send() call request r made.
Relayed(r) == calls[app.load_balancer][Request(r).call]

\* C16. A forwarding problem is never reported as a failure: every response
\* to a request whose payload was logged has status "success", whether
\* send() returned a delivery, a rejection or a failed delivery or no
\* balancer exists, and the handler answers as soon as send() has returned; the
\* response names a provider exactly when the delivery succeeded, and then
\* the provider delivered to.
ForwardingNeverFails ==
    \A r \in Handled :
        Request(r).log = "ok" =>
            /\ Request(r).pc = "responded" => Request(r).response.status = "success"
            /\ (Request(r).call = 0 \/ Relayed(r).pc = "returned") => Request(r).pc = "responded"
            /\ Request(r).pc = "responded" =>
                  /\ Request(r).response.provider # 0
                        <=> (Request(r).call # 0 /\ Relayed(r).result.success)
                  /\ Request(r).response.provider # 0
                        => Request(r).response = ForwardedResponse(Relayed(r).provider)

\* One request was forwarded, the next failed to be delivered.
ForwardingNeverFailsWitness ==
    /\ app.load_balancer # NoBalancer
    /\ Request(1).response.message = "forwarded"
    /\ Request(2).pc = "responded"
    /\ Request(2).call # 0
    /\ Relayed(2).result = SentResult(Relayed(2).provider, FALSE)
    /\ Request(2).response = LocalOnlyResponse

\* C19. After shutdown_event no client constructed at startup is left open.
ShutdownReleasesClients ==
    app.phase = "stopped" => \A i \in DOMAIN app.clients : app.clients[i] # "open"

\* The step is the selection scan of call c on the balancer of strategy s.
Scans(s, c) == calls[s][c].pc = "idle" /\ calls'[s][c].pc # "idle"

\* C21. Cursor invariant: with N >= 1 providers the cursor is in 0..N-1 in
\* every reachable state; a selection scan visits between 1 and N positions
\* and advances the cursor by one (mod N) per position visited, whether or
\* not a provider is chosen; when provider i (list index i-1) is selected the
\* cursor afterwards is i mod N, one past it; no other step moves the cursor.
CursorInvariant ==
    /\ \A s \in Running : N >= 1 => current_index[s] \in 0..(N - 1)
    /\ [][\A s \in Running :
             N >= 1 =>
                /\ current_index'[s] \in 0..(N - 1)
                /\ \A c \in CallIds :
                      Scans(s, c) =>
                         /\ calls'[s][c].visited \in 1..N
                         /\ current_index'[s]
                               = (current_index[s] + calls'[s][c].visited) % N
                         /\ calls'[s][c].provider # 0
                               => current_index'[s] = calls'[s][c].provider % N
                /\ (\A c \in CallIds : ~Scans(s, c))
                      => current_index'[s] = current_index[s]]_vars

\* Over the largest list a scan starting past the head skipped an unavailable
\* provider, wrapped round the end of the list and selected a provider.
CursorInvariantWitness ==
    \E s \in Running : \E c \in Started(s) :
        /\ N = MaxProviders
        /\ Call(s, c).start > 0
        /\ Call(s, c).visited > 1
        /\ Call(s, c).provider # 0
        /\ Call(s, c).provider <= Call(s, c).start
        /\ c = Cardinality(Started(s))
        /\ current_index[s] = Call(s, c).provider % N

\* The three outcomes, as shapes of the dict send() returns.
IsDelivered(r) == r.success /\ r.provider # 0 /\ r.error = ErrNone
IsDeliveryFailed(r) == ~r.success /\ r.provider # 0 /\ r.error = ErrSendFailed
IsRejected(r) == ~r.success /\ r.provider = 0 /\ r.error = ErrNoProvider

\* C22. Outcome taxonomy: every send() call that has ended has returned, and
\* what it returned is Delivered exactly when a provider was selected and
\* its POST succeeded, DeliveryFailed exactly when a provider was selected
\* and its POST did not succeed, Rejected exactly when no provider was
\* selected; the provider named is the one the POST was made to.
OutcomeTaxonomy ==
    \A s \in Running : \A c \in Started(s) \ InFlight(s) :
        LET call == Call(s, c)
            r == call.result
        IN  /\ call.pc = "returned"
            /\ IsDelivered(r) <=> (call.provider # 0 /\ call.transport = "ok")
            /\ IsDeliveryFailed(r) <=> (call.provider # 0 /\ call.transport # "ok")
            /\ IsRejected(r) <=> call.provider = 0
            /\ r.provider # 0 => call.posts = <<r.provider>>

\* C23. A call that finds all N providers unavailable reads all N positions
\* and leaves the cursor where it was, and it changes nothing else of the
\* balancer (no quota, no provider, no other call), so the rotation position
\* survives any number of such calls.
RejectionFrame ==
    [][\A s \in Running : \A c \in CallIds :
          (Scans(s, c) /\ calls'[s][c].provider = 0) =>
             /\ calls'[s][c].result = RejectedResult
             /\ calls'[s][c].visited = N
             /\ current_index'[s] = current_index[s]
             /\ used_quota' = used_quota
             /\ providers' = providers /\ provider_class' = provider_class
             /\ \A b \in CallIds \ {c} : calls'[s][b] = calls[s][b]]_vars

\* With the cursor past the head, two calls in a row found every provider of
\* a list of two or more unavailable and the cursor is still where it was.
RejectionFrameWitness ==
    \E s \in Running : \E c \in Started(s) :
        /\ N >= 2
        /\ c + 1 \in Started(s)
        /\ Call(s, c).result = RejectedResult
        /\ Call(s, c + 1).result = RejectedResult
        /\ Call(s, c).start > 0
        /\ Call(s, c + 1).start = Call(s, c).start
        /\ current_index[s] = Call(s, c).start

\* C24. In the balancer startup builds (enabled Provider instances only),
\* every send() call selects the provider at the cursor, reading one position
\* and advancing the cursor by one modulo N, and none is rejected, however
\* the deliveries before it ended: the c-th call goes to list index
\* (c - 1) mod N.
StartupBalancerNeverRejects ==
    \A s \in Running :
        /\ N >= 1
        /\ provider_class = "Provider"
        /\ \A i \in 1..N : providers[i].enabled
        /\ current_index[s] = Cardinality(Started(s)) % N
        /\ \A c \in Started(s) :
              /\ Call(s, c).start = (c - 1) % N
              /\ Call(s, c).provider = Call(s, c).start + 1
              /\ Call(s, c).visited = 1
              /\ Call(s, c).result # RejectedResult
              /\ Call(s, c).pc # "awaiting" => Call(s, c).transport # "none"

\* From a configuration with a disabled entry, the balancer has served calls
\* round its list and past failed and successful deliveries.
StartupBalancerNeverRejectsWitness ==
    \E s \in Running :
        /\ app.phase = "running"
        /\ N < Len(app.configs)
        /\ {1, 2, 3} \subseteq Started(s)
        /\ Call(s, 1).transport = "error"
        /\ Call(s, 2).transport = "ok"
        /\ Call(s, 3).provider = (2 % N) + 1
        /\ Call(s, 3).start = 2 % N

====
